---------------------------- MODULE Spec2Model ----------------------------
(***************************************************************************)
(* A model of the event distribution core of rclancey/events: the handler  *)
(* filter chain (handler.go), the event sink and its namespaced view       *)
(* (sink.go) and the event model (event.go).                                *)
(*                                                                         *)
(* Numbers are float64 in the source.  The model draws them from the       *)
(* integers 0..MaxVal plus the not-a-number sentinel NaN; every comparison *)
(* the code makes on a NaN is preceded by its math.IsNaN test, so the      *)
(* sentinel is never compared.  Times are integer ticks of 100 ms.         *)
(***************************************************************************)
EXTENDS Integers, Sequences, FiniteSets, Bags, TLC

VARIABLES
    flt,        \* the handler object under test in the filter harnesses
    ncalls,     \* history: how many Calls the harness has made on flt
    lastCall,   \* history: the last Call (event, result, forwarded?)
    gh,         \* history: what the harness has seen so far
    listeners,  \* basicEventSink.listeners: event type -> handler references
    eventTypes, \* basicEventSink.eventTypes: event type -> event
    mutex,      \* basicEventSink.mutex: TRUE while locked
    log,        \* basicEventSink.log: the events fired, newest first
    logTTL,     \* basicEventSink.logTTL, in ticks
    now,        \* the wall clock (time.Now), in ticks
    objs,       \* the heap of handler objects; a reference is an index
    tasks,      \* the goroutines: a bag of call stacks
    crashed,    \* the process died of a fatal error (stack overflow)
    budget,     \* the calls the producers may still make
    sg          \* history: what the sink's tasks have done

harnessVars == <<flt, ncalls, lastCall, gh>>
sinkVars == <<listeners, eventTypes, mutex, log, logTTL, now, objs, tasks, crashed,
              budget, sg>>
vars == <<flt, ncalls, lastCall, gh, listeners, eventTypes, mutex, log, logTTL, now,
          objs, tasks, crashed, budget, sg>>

-----------------------------------------------------------------------------
(* Bounds of the model *)

MaxVal == 7        \* values are drawn from 0..MaxVal (and NaN)
MaxLevel == 20     \* threshold harness: values, trigger and reset in 0..MaxLevel
MaxCalls == 5      \* Calls made by the max-calls harness
MaxN == 2          \* the largest maxCalls argument tried
MaxTime == 16      \* event timestamps are drawn from 0..MaxTime (ticks)
MaxTtl == 10       \* the largest debounce ttl tried (ticks)
MaxStack == 4      \* frames a goroutine's stack holds before it overflows
MaxGoroutines == 2 \* a producer starts a call only while fewer goroutines are alive
MaxAlive == 4      \* a Fire takes the mutex only while no more goroutines are alive

-----------------------------------------------------------------------------
(* Errors (handler.go:10-12) and the results a terminal callback can give *)

ErrNil == "nil"
ErrIgnored == "ignored"
ErrExpired == "expired"
ErrIncompatibleEvent == "incompatible event"
ErrOther == "callback failed"

CallbackResults == {ErrNil, ErrIgnored, ErrOther}

(* Directions (handler.go:23-30) *)
DirectionNone == ""
DirectionIncreasing == "increasing"
DirectionDecreasing == "decreasing"
DirectionSteady == "steady"
DirectionReverse == "reverse"

NaN == -1
IsNaN(v) == v = NaN

Values == 0..MaxVal

-----------------------------------------------------------------------------
(* Events (event.go).  kind is the concrete specialization. *)

valueEvent(evtType, t, v) ==
    [type |-> evtType, time |-> t, kind |-> "value", value |-> v, data |-> "none"]
messageEvent(evtType, t) ==
    [type |-> evtType, time |-> t, kind |-> "message", value |-> NaN, data |-> "none"]
basicEvent(evtType, t, d) ==
    [type |-> evtType, time |-> t, kind |-> "plain", value |-> NaN, data |-> d]

IsValueEvent(ev) == ev.kind = "value"

-----------------------------------------------------------------------------
(* Handler objects.  A wrapper holds its inner handler; the fields are the *)
(* struct fields of handler.go.                                            *)

NewEventHandler(id) == [kind |-> "basic", id |-> id]

WithMaxCalls(h, maxCalls) ==
    IF maxCalls <= 0 THEN h
    ELSE [kind |-> "maxCalls", inner |-> h, maxCalls |-> maxCalls, calls |-> 0]

WithTimeout(h, ttl, nowT) ==
    IF ttl <= 0 THEN h
    ELSE [kind |-> "timeout", inner |-> h, endTime |-> nowT + ttl]

WithDirection(h, direction) ==
    [kind |-> "direction", inner |-> h, targetDirection |-> direction,
     lastValue |-> NaN, currentDirection |-> DirectionNone]

WithThreshold(h, direction, triggerVal, resetVal) ==
    [kind |-> "threshold", inner |-> h, direction |-> direction,
     triggerVal |-> triggerVal, resetVal |-> resetVal, triggered |-> FALSE]

WithRange(h, min, max) == [kind |-> "range", inner |-> h, min |-> min, max |-> max]

WithDebounce(h, ttl, nowT) ==
    IF ttl <= 0 THEN h
    ELSE [kind |-> "debounce", inner |-> h, ttl |-> ttl, last |-> nowT - ttl]

RECURSIVE ID(_)
ID(h) == IF h.kind = "basic" THEN h.id ELSE ID(h.inner)

-----------------------------------------------------------------------------
(* The decisions of each Call, as the code takes them.  A step operator    *)
(* returns the wrapper's new fields and whether it delegates to its inner  *)
(* handler (fwd); ret is what it returns when it does not.                 *)

\* basicEventHandler.Call: the callback's "ignored" is reported as success
basicReturn(cb) == IF cb = ErrIgnored THEN ErrNil ELSE cb

\* maxCallsHandler.Call / Expired
maxCallsExhausted(h) == h.calls >= h.maxCalls
maxCallsReturn(err) == IF err = ErrIgnored THEN ErrNil ELSE err
maxCallsCount(calls, err) == IF err = ErrNil THEN calls + 1 ELSE calls

\* timeoutHandler.Call: time.Time.After is strict
timeoutPassed(endTime, t) == t > endTime

\* directionHandler.Call, from the value on
directionOf(val, lastValue) ==
    IF val < lastValue THEN DirectionDecreasing
    ELSE IF val > lastValue THEN DirectionIncreasing
    ELSE DirectionSteady

directionStep(h, val) ==
    IF IsNaN(h.lastValue)
    THEN [h |-> [h EXCEPT !.lastValue = val], fwd |-> FALSE]
    ELSE LET dir == directionOf(val, h.lastValue) IN
         IF dir = DirectionSteady
         THEN [h |-> h, fwd |-> h.targetDirection = dir]
         ELSE IF h.targetDirection = DirectionReverse
         THEN [h |-> h, fwd |-> dir # h.currentDirection]
         ELSE [h |-> [h EXCEPT !.currentDirection = dir],
               fwd |-> dir = h.targetDirection]

\* thresholdHandler.Call, from the value on
thresholdReset(direction, resetVal, val) ==
    \/ direction = DirectionDecreasing /\ val >= resetVal
    \/ direction = DirectionIncreasing /\ val <= resetVal

thresholdTrigger(direction, triggerVal, val) ==
    \/ direction = DirectionDecreasing /\ val <= triggerVal
    \/ direction = DirectionIncreasing /\ val >= triggerVal

\* thresholdStep without the assignment h.triggered = true
thresholdStepNoLatch(h, val) ==
    IF h.triggered
    THEN [h |-> [h EXCEPT !.triggered =
                    ~thresholdReset(h.direction, h.resetVal, val)],
          fwd |-> FALSE]
    ELSE [h |-> h, fwd |-> thresholdTrigger(h.direction, h.triggerVal, val)]

thresholdStep(h, val) ==
    IF h.triggered
    THEN [h |-> [h EXCEPT !.triggered =
                    ~thresholdReset(h.direction, h.resetVal, val)],
          fwd |-> FALSE]
    ELSE IF thresholdTrigger(h.direction, h.triggerVal, val)
    THEN [h |-> [h EXCEPT !.triggered = TRUE], fwd |-> TRUE]
    ELSE [h |-> h, fwd |-> FALSE]

\* rangeHandler.Call, from the value on
rangeAdmits(min, max, val) ==
    IF min > max
    THEN val < min \/ val > max
    ELSE ~(val < min \/ val > max)

rangeStep(h, val) == [h |-> h, fwd |-> rangeAdmits(h.min, h.max, val)]

\* debounceAdmits with Before for After: an event exactly ttl after the last
\* one is held back
debounceAdmitsStrictlyLater(last, ttl, t) == t > last + ttl

\* debounceHandler.Call
debounceAdmits(last, ttl, t) == ~(last + ttl > t)

debounceStep(h, t) ==
    IF debounceAdmits(h.last, h.ttl, t)
    THEN [h |-> [h EXCEPT !.last = t], fwd |-> TRUE]
    ELSE [h |-> h, fwd |-> FALSE]

\* valueGate answering "ignored" to an event that is no value event
valueGateIgnoresOthers(ev) ==
    IF ~IsValueEvent(ev) THEN ErrIgnored
    ELSE IF IsNaN(ev.value) THEN ErrIgnored
    ELSE "ok"

\* The value-inspecting filters share their first lines: the type assertion
\* and the NaN test.  gate is "ok" when the value reaches the filter's rule.
valueGate(ev) ==
    IF ~IsValueEvent(ev) THEN ErrIncompatibleEvent
    ELSE IF IsNaN(ev.value) THEN ErrIgnored
    ELSE "ok"

filterStep(h, ev) ==
    CASE h.kind = "direction" -> directionStep(h, ev.value)
      [] h.kind = "threshold" -> thresholdStep(h, ev.value)
      [] h.kind = "range" -> rangeStep(h, ev.value)

(* A Call on a chain runs down the wrappers to the terminal callback and   *)
(* back up.  after(h, err) is what a wrapper does with the error its inner *)
(* handler returned: only maxCallsHandler does anything (it counts the     *)
(* call and hides "ignored").  count is the value of h.calls that the      *)
(* increment h.calls += 1 starts from.                                     *)
after(h, count, err) ==
    IF h.kind = "maxCalls"
    THEN [h |-> [h EXCEPT !.calls = maxCallsCount(count, err)],
          ret |-> maxCallsReturn(err)]
    ELSE [h |-> h, ret |-> err]

\* What a wrapper does before it delegates: its new fields and whether it
\* delegates (fwd); ret is what it returns when it does not.
before(h, ev) ==
    CASE h.kind = "maxCalls" ->
            [h |-> h, fwd |-> ~maxCallsExhausted(h), ret |-> ErrExpired]
      [] h.kind = "timeout" ->
            [h |-> h, fwd |-> ~timeoutPassed(h.endTime, ev.time), ret |-> ErrExpired]
      [] h.kind = "debounce" ->
            [h |-> debounceStep(h, ev.time).h, fwd |-> debounceStep(h, ev.time).fwd,
             ret |-> ErrIgnored]
      [] OTHER ->
            IF valueGate(ev) # "ok"
            THEN [h |-> h, fwd |-> FALSE, ret |-> valueGate(ev)]
            ELSE [h |-> filterStep(h, ev).h, fwd |-> filterStep(h, ev).fwd,
                  ret |-> ErrIgnored]

(* Descend(h, ev): h.Call(ev) up to the moment the terminal callback is    *)
(* entered (reached), or to its return when a wrapper stops the event      *)
(* first (then ret is the error returned).  fwd: h delegated to its inner  *)
(* handler.                                                                *)
RECURSIVE Descend(_, _)
Descend(h, ev) ==
    IF h.kind = "basic"
    THEN [h |-> h, reached |-> TRUE, ret |-> ErrNil, fwd |-> FALSE]
    ELSE LET b == before(h, ev) IN
         IF ~b.fwd
         THEN [h |-> b.h, reached |-> FALSE, ret |-> b.ret, fwd |-> FALSE]
         ELSE LET r == Descend(b.h.inner, ev)
                  h2 == [b.h EXCEPT !.inner = r.h] IN
              IF r.reached
              THEN [h |-> h2, reached |-> TRUE, ret |-> ErrNil, fwd |-> TRUE]
              ELSE [h |-> after(h2, h2.calls, r.ret).h, reached |-> FALSE,
                    ret |-> after(h2, h2.calls, r.ret).ret, fwd |-> TRUE]

(* Ascend(h, seen, stale, err): the return path of a Call whose terminal   *)
(* callback returned err, through every wrapper of h.  The increment       *)
(* h.calls += 1 is not synchronized: when Calls on one object overlap it   *)
(* may start from the count the Call read on its way down (seen, with      *)
(* stale) instead of the current one.                                      *)
RECURSIVE Ascend(_, _, _, _)
Ascend(h, seen, stale, err) ==
    IF h.kind = "basic"
    THEN [h |-> h, ret |-> err]
    ELSE LET r == Ascend(h.inner, seen.inner, stale, err)
             h2 == [h EXCEPT !.inner = r.h] IN
         IF h.kind = "maxCalls"
         THEN after(h2, IF stale THEN seen.calls ELSE h.calls, r.ret)
         ELSE after(h2, 0, r.ret)

(* Call(h, ev, cb): h.Call(ev) run to completion with no other Call on h   *)
(* in between, the terminal callback answering cb if it is reached.        *)
(* Returns the handler object after the call (h), the error returned       *)
(* (ret), whether h delegated to its inner handler (fwd) and how often the *)
(* terminal callback ran (cbn).                                            *)
Call(h, ev, cb) ==
    LET d == Descend(h, ev) IN
    IF d.reached
    THEN [h |-> Ascend(d.h, d.h, FALSE, basicReturn(cb)).h,
          ret |-> Ascend(d.h, d.h, FALSE, basicReturn(cb)).ret,
          fwd |-> d.fwd, cbn |-> 1]
    ELSE [h |-> d.h, ret |-> d.ret, fwd |-> d.fwd, cbn |-> 0]

\* EventHandler.Expired at wall-clock time nowT
RECURSIVE Expired(_, _)
Expired(h, nowT) ==
    CASE h.kind = "basic" -> FALSE
      [] h.kind = "maxCalls" -> maxCallsExhausted(h) \/ Expired(h.inner, nowT)
      [] h.kind = "timeout" -> nowT > h.endTime \/ Expired(h.inner, nowT)
      [] OTHER -> Expired(h.inner, nowT)

-----------------------------------------------------------------------------
(* The event sink (sink.go).                                               *)
(*                                                                         *)
(* A goroutine is a call stack: a sequence of frames, the running one      *)
(* first.  A frame is a call of one function: fn, its arguments and pc,    *)
(* the place it has reached.  A goroutine whose stack is empty is gone.    *)
(* Producers are goroutines too: each call on the sink is made by one.     *)

EventTypeHandlerAdded == "listener-add"
EventTypeHandlerRemoved == "listener-remove"
EventTypeHandlerError == "listener-error"

ListenerMeta(eventType, id, err) ==
    [shape |-> "meta", event_type |-> eventType, handler_id |-> id, error |-> err,
     value |-> NaN]
NumberData(v) ==
    [shape |-> "number", event_type |-> "", handler_id |-> 0, error |-> "",
     value |-> v]

\* NewEvent: a number makes a value event, a string a message event, and a
\* *ListenerMeta (no case of the type switch) a plain event carrying it.
NewEvent(evtType, data, nowT) ==
    CASE data.shape = "number" -> valueEvent(evtType, nowT, data.value)
      [] data.shape = "string" -> messageEvent(evtType, nowT)
      [] OTHER -> basicEvent(evtType, nowT, data)

\* Event.As: the same event under another type
As(ev, evtType) == [ev EXCEPT !.type = evtType]

\* A Go map read: the zero value for a missing key
Lookup(m, k) == IF k \in DOMAIN m THEN m[k] ELSE <<>>

MapSet(m, k, v) == [x \in DOMAIN m \cup {k} |-> IF x = k THEN v ELSE m[x]]
MapDelete(m, k) == [x \in DOMAIN m \ {k} |-> m[x]]

RECURSIVE SelectIdx(_, _)
\* the elements of sequence s at the indices where keep holds, in order
SelectIdx(s, keep) ==
    IF s = <<>> THEN <<>>
    ELSE LET rest == SelectIdx(SubSeq(s, 1, Len(s) - 1), keep) IN
         IF keep[Len(s)] THEN Append(rest, s[Len(s)]) ELSE rest

\* generic.LinkedList: Unshift puts an element first, PopIf drops the
\* elements the predicate holds of.
Unshift(l, ev) == <<ev>> \o l
PopIf(l, oldest) == SelectIdx(l, [i \in 1..Len(l) |-> ~(l[i].time < oldest)])

\* strings.HasPrefix, strings.TrimPrefix
HasPrefix(str, prefix) ==
    Len(str) >= Len(prefix) /\ SubSeq(str, 1, Len(prefix)) = prefix
TrimPrefix(str, prefix) ==
    IF HasPrefix(str, prefix) THEN SubSeq(str, Len(prefix) + 1, Len(str)) ELSE str

(* Frames *)
AddFrame(eventType, h) ==
    [fn |-> "AddEventListener", pc |-> "lock", eventType |-> eventType, h |-> h]
RemoveFrame(eventType, id) ==
    [fn |-> "RemoveEventListener", pc |-> "lock", eventType |-> eventType, id |-> id]
EmitFrame(eventType, data, fid) ==
    [fn |-> "Emit", pc |-> "new", eventType |-> eventType, data |-> data, fid |-> fid]
FireFrame(ev, fid) ==
    [fn |-> "Fire", pc |-> "log", ev |-> ev, fid |-> fid, oldest |-> 0, inserted |-> 0]
RegisterFrame(ev) ==
    [fn |-> "RegisterEventType", pc |-> "lock", ev |-> ev]
\* the goroutine Fire starts for listener h.  seen: the object as the Call
\* read it on its way down.  The rest is history, what the goroutine has done
\* so far: ret, the error of its Call; emitted, the events it has created
\* with Emit; removes, its calls of RemoveEventListener, and stillThere,
\* whether the listener was registered after them; wasExpired, the answer of
\* xh.Expired()
DispatchFrame(ev, fid, h) ==
    [fn |-> "dispatch", pc |-> "call", ev |-> ev, fid |-> fid, h |-> h,
     seen |-> NewEventHandler(0), ret |-> "none", emitted |-> <<>>,
     removes |-> 0, stillThere |-> FALSE, wasExpired |-> FALSE]

Top(t) == t[1]

\* The counts of the history count up to MaxHistory and stay there.
MaxHistory == 12
CountUp(n) == IF n < MaxHistory THEN n + 1 ELSE n
BagCountUp(b, e) == IF CopiesIn(e, b) < MaxHistory THEN b (+) SetToBag({e}) ELSE b

RECURSIVE BagOfSeq(_)
BagOfSeq(s) == IF s = <<>> THEN EmptyBag
               ELSE SetToBag({Head(s)}) (+) BagOfSeq(Tail(s))

\* The frames that have returned leave the stack.
RECURSIVE Unwind(_)
Unwind(t) == IF t # <<>> /\ Top(t).pc = "end" THEN Unwind(Tail(t)) ELSE t

\* What the goroutine for a listener that finishes with stack t did (history);
\* sg.done holds it for the goroutine that finished last.
Finished(t) ==
    {[fid |-> f.fid, h |-> f.h, eventType |-> f.ev.type, ret |-> f.ret,
      emitted |-> f.emitted, removes |-> f.removes, stillThere |-> f.stillThere,
      wasExpired |-> f.wasExpired] :
        f \in {t[i] : i \in {j \in 1..Len(t) :
                                /\ t[j].fn = "dispatch"
                                /\ \A k \in 1..j : t[k].pc = "end"}}}

\* Goroutine t continues as stack t2, the goroutines of spawned start, and
\* the history becomes sg2.
Step(t, t2, spawned, sg2) ==
    /\ tasks' = ((tasks (-) SetToBag({t})) (+) BagOfSeq(spawned))
                   (+) (IF Unwind(t2) = <<>> THEN EmptyBag ELSE SetToBag({Unwind(t2)}))
    /\ sg' = [sg2 EXCEPT !.done = IF Finished(t2) = {} THEN @ ELSE Finished(t2)]
    /\ UNCHANGED harnessVars

Running(fn, pc) ==
    IF crashed THEN {}
    ELSE {t \in BagToSet(tasks) : Top(t).fn = fn /\ Top(t).pc = pc}

Returned(f) == [f EXCEPT !.pc = "end"]

HandlerIDs == {ID(objs[r]) : r \in 1..Len(objs)}

\* Some goroutine is in a call AddEventListener(eventType, a handler with id).
Adding(eventType, id) ==
    \E t \in BagToSet(tasks) : \E i \in 1..Len(t) :
        /\ t[i].fn = "AddEventListener" /\ t[i].pc # "end"
        /\ t[i].eventType = eventType
        /\ ID(objs[t[i].h]) = id

(* --- AddEventListener --------------------------------------------------- *)

AddEventListenerLock ==
    \E t \in Running("AddEventListener", "lock") :
        /\ ~mutex
        /\ mutex' = TRUE
        /\ Step(t, <<[Top(t) EXCEPT !.pc = "body"]>> \o Tail(t), <<>>, sg)
        /\ UNCHANGED <<listeners, eventTypes, log, logTTL, now, objs, crashed, budget>>

\* AddEventListenerBody with the Emit called in place, not in a goroutine
AddEventListenerBodyEmitsInPlace ==
    \E t \in Running("AddEventListener", "body") :
        LET f == Top(t)
            data == ListenerMeta(f.eventType, ID(objs[f.h]), "") IN
        /\ listeners' = MapSet(listeners, f.eventType,
                               Append(Lookup(listeners, f.eventType), f.h))
        /\ mutex' = TRUE
        /\ Step(t, <<EmitFrame(EventTypeHandlerAdded, data, 0), f>> \o Tail(t),
                <<>>, sg)
        /\ UNCHANGED <<eventTypes, log, logTTL, now, objs, crashed, budget>>

\* The body runs under the mutex up to the deferred Unlock; the goroutine it
\* starts for the Emit takes its steps from then on.
AddEventListenerBody ==
    \E t \in Running("AddEventListener", "body") :
        LET f == Top(t)
            data == ListenerMeta(f.eventType, ID(objs[f.h]), "") IN
        /\ listeners' = MapSet(listeners, f.eventType,
                               Append(Lookup(listeners, f.eventType), f.h))
        /\ mutex' = FALSE
        /\ Step(t, <<Returned(f)>> \o Tail(t),
                <<  <<EmitFrame(EventTypeHandlerAdded, data, 0)>>  >>, sg)
        /\ UNCHANGED <<eventTypes, log, logTTL, now, objs, crashed, budget>>

(* --- RemoveEventListener ------------------------------------------------ *)

\* removeKeep that stops at the first listener it drops
removeKeepAfterFirst(cur, id) ==
    [i \in 1..Len(cur) |->
        \/ ID(objs[cur[i]]) # id
        \/ \E j \in 1..(i - 1) : ID(objs[cur[j]]) = id]

\* which of the listeners cur stay: those whose ID is not id
removeKeep(cur, id) == [i \in 1..Len(cur) |-> ID(objs[cur[i]]) # id]

\* removedEvents with an event also when no entry was removed
removedEventsAlways(cur, out, xev) ==
    [i \in 1..(IF Len(cur) = Len(out) THEN 1 ELSE Len(cur) - Len(out)) |-> xev]

\* evts: one listener-remove event for each entry that was removed
removedEvents(cur, out, xev) == [i \in 1..(Len(cur) - Len(out)) |-> xev]

RemoveEventListenerLock ==
    \E t \in Running("RemoveEventListener", "lock") :
        /\ ~mutex
        /\ mutex' = TRUE
        /\ Step(t, <<[Top(t) EXCEPT !.pc = "body"]>> \o Tail(t), <<>>, sg)
        /\ UNCHANGED <<listeners, eventTypes, log, logTTL, now, objs, crashed, budget>>

RemoveEventListenerBody ==
    \E t \in Running("RemoveEventListener", "body") :
        LET f == Top(t)
            cur == Lookup(listeners, f.eventType)
            out == SelectIdx(cur, removeKeep(cur, f.id))
            data == ListenerMeta(f.eventType, f.id, "")
            xev == NewEvent(EventTypeHandlerRemoved, data, now)
            fired == removedEvents(cur, out, xev)
            evts == [i \in 1..Len(fired) |-> <<FireFrame(fired[i], 0)>>]
            caller == IF Len(t) > 1 THEN t[2].fn ELSE ""
            there == \E i \in 1..Len(out) : ID(objs[out[i]]) = f.id
            \* history: the caller, a goroutine for a listener, notes whether
            \* the listener is still registered
            rest == IF Len(t) > 1 /\ t[2].fn = "dispatch" /\ t[2].pc # "callback"
                    THEN <<[t[2] EXCEPT !.stillThere = there, !.removes = @ + 1]>>
                            \o SubSeq(t, 3, Len(t))
                    ELSE Tail(t) IN
        /\ listeners' = IF Len(out) = 0
                        THEN MapDelete(listeners, f.eventType)
                        ELSE MapSet(listeners, f.eventType, out)
        /\ mutex' = FALSE
        /\ Step(t, <<Returned(f)>> \o rest, evts,
                [sg EXCEPT !.gone = IF Adding(f.eventType, f.id) THEN @
                                    ELSE @ \cup {<<f.eventType, f.id>>},
                           !.removed = @ + (Len(cur) - Len(out)),
                           !.remKeys = IF Len(cur) = Len(out) THEN @
                                       ELSE @ \cup {<<f.eventType, f.id>>},
                           !.vain = IF Len(cur) = Len(out)
                                    THEN @ \cup {<<caller, Len(cur) > 0>>}
                                    ELSE @])
        /\ UNCHANGED <<eventTypes, log, logTTL, now, objs, crashed, budget>>

(* --- Fire, Emit --------------------------------------------------------- *)

EmitNew ==
    \E t \in Running("Emit", "new") :
        LET f == Top(t)
            ev == NewEvent(f.eventType, f.data, now)
            \* history: the caller, a goroutine for a listener, notes the event
            rest == IF Len(t) > 1 /\ t[2].fn = "dispatch" /\ t[2].pc # "callback"
                    THEN <<[t[2] EXCEPT !.emitted = Append(@, ev)]>>
                            \o SubSeq(t, 3, Len(t))
                    ELSE Tail(t) IN
        /\ Step(t, <<FireFrame(ev, f.fid)>> \o rest, <<>>, sg)
        /\ UNCHANGED <<listeners, eventTypes, mutex, log, logTTL, now, objs, crashed, budget>>

\* es.log.Unshift(ev).  History: nins, the number of insertions so far;
\* logFid, for each entry of the log the number of the Fire that inserted it
\* and the number of the insertion.
FireLog ==
    \E t \in Running("Fire", "log") :
        LET f == Top(t) IN
        /\ log' = Unshift(log, f.ev)
        /\ Step(t, <<[f EXCEPT !.pc = "prune"]>> \o Tail(t), <<>>,
                [sg EXCEPT !.nins = CountUp(@),
                           !.nrem = IF f.ev.type = EventTypeHandlerRemoved
                                    THEN @ + 1 ELSE @,
                           !.logFid = <<[fid |-> f.fid, n |-> CountUp(sg.nins)]>> \o @])
        /\ UNCHANGED <<listeners, eventTypes, mutex, logTTL, now, objs, crashed, budget>>

\* oldestOf with the retention added instead of subtracted
oldestOfLater(nowT, ttl) == nowT + ttl

\* oldest := time.Now().Add(-es.logTTL)
oldestOf(nowT, ttl) == nowT - ttl

\* es.log.PopIf(...).  History: the frame notes the oldest time it kept and
\* how many events had been inserted.
FirePrune ==
    \E t \in Running("Fire", "prune") :
        LET f == Top(t)
            oldest == oldestOf(now, logTTL) IN
        /\ log' = PopIf(log, oldest)
        /\ Step(t, <<[f EXCEPT !.pc = "lock", !.oldest = oldest,
                                !.inserted = sg.nins]>> \o Tail(t), <<>>,
                [sg EXCEPT !.logFid = SelectIdx(@, [i \in 1..Len(log) |->
                                                      ~(log[i].time < oldest)])])
        /\ UNCHANGED <<listeners, eventTypes, mutex, logTTL, now, objs, crashed, budget>>

\* es.mutex.Lock() of Fire.  While more than MaxAlive goroutines are alive the
\* scheduler runs those that are about to end first.
FireLock ==
    \E t \in Running("Fire", "lock") :
        /\ ~mutex
        /\ BagCardinality(tasks) <= MaxAlive
        /\ mutex' = TRUE
        /\ Step(t, <<[Top(t) EXCEPT !.pc = "snapshot"]>> \o Tail(t), <<>>, sg)
        /\ UNCHANGED <<listeners, eventTypes, log, logTTL, now, objs, crashed, budget>>

\* fireSnapshot with a loop that stops one listener short
fireSnapshotButLast(eventType) ==
    SubSeq(Lookup(listeners, eventType), 1, Len(Lookup(listeners, eventType)) - 1)

\* the listeners Fire starts a goroutine for
fireSnapshot(eventType) == Lookup(listeners, eventType)

\* fireCatalog without the test: every Fire overwrites the entry
fireCatalogOverwrites(types, ev) == MapSet(types, ev.type, ev)

\* the catalog after a Fire of ev: the type is recorded if it is not there
fireCatalog(types, ev) ==
    IF ev.type \in DOMAIN types THEN types ELSE MapSet(types, ev.type, ev)

\* History: firstFired, for each type the first event of it that a Fire
\* brought under the mutex.
FireSnapshot ==
    \E t \in Running("Fire", "snapshot") :
        LET f == Top(t)
            eventType == f.ev.type
            ls == fireSnapshot(eventType) IN
        /\ eventTypes' = fireCatalog(eventTypes, f.ev)
        /\ mutex' = FALSE
        /\ Step(t, <<Returned(f)>> \o Tail(t),
                [i \in 1..Len(ls) |-> <<DispatchFrame(f.ev, f.fid, ls[i])>>],
                [sg EXCEPT !.snap = IF f.fid = 0 THEN @
                                    ELSE MapSet(@, f.fid, Lookup(listeners, eventType)),
                           !.firstFired = IF eventType \in DOMAIN @ THEN @
                                          ELSE MapSet(@, eventType, f.ev),
                           !.afterFire = IF f.fid = 0 \/ logTTL < 0 THEN @
                                         ELSE [fid |-> f.fid, oldest |-> f.oldest,
                                               inserted |-> f.inserted, now |-> now,
                                               log |-> log, logFid |-> sg.logFid]])
        /\ UNCHANGED <<listeners, log, logTTL, now, objs, crashed, budget>>

(* --- the goroutine Fire starts for one listener ------------------------- *)

\* AfterCall without the test for ErrIgnored
AfterCallReportsIgnored(f, id, err) ==
    IF err # ErrNil /\ err = ErrExpired
    THEN <<RemoveFrame(f.ev.type, id), [f EXCEPT !.pc = "end", !.ret = err]>>
    ELSE IF err # ErrNil
    THEN <<EmitFrame(EventTypeHandlerError, ListenerMeta(f.ev.type, id, err), 0),
           [f EXCEPT !.pc = "expired", !.ret = err]>>
    ELSE <<[f EXCEPT !.pc = "expired", !.ret = err]>>

\* From the error of xh.Call(ev) on: what the goroutine does next.
AfterCall(f, id, err) ==
    IF err # ErrNil /\ err = ErrExpired
    THEN <<RemoveFrame(f.ev.type, id), [f EXCEPT !.pc = "end", !.ret = err]>>
    ELSE IF err # ErrNil /\ err # ErrIgnored
    THEN <<EmitFrame(EventTypeHandlerError, ListenerMeta(f.ev.type, id, err), 0),
           [f EXCEPT !.pc = "expired", !.ret = err]>>
    ELSE <<[f EXCEPT !.pc = "expired", !.ret = err]>>

DispatchCall ==
    \E t \in Running("dispatch", "call") :
        LET f == Top(t)
            d == Descend(objs[f.h], f.ev)
            sg2 == [sg EXCEPT !.called = BagCountUp(@, <<f.fid, f.h>>)] IN
        /\ objs' = [objs EXCEPT ![f.h] = d.h]
        /\ IF d.reached
           THEN Step(t, <<[f EXCEPT !.pc = "callback", !.seen = objs[f.h]]>>, <<>>, sg2)
           ELSE Step(t, AfterCall(f, ID(objs[f.h]), d.ret), <<>>, sg2)
        /\ UNCHANGED <<listeners, eventTypes, mutex, log, logTTL, now, crashed, budget>>

\* the terminal callback runs and the Call returns through the wrappers
DispatchCallback ==
    \E t \in Running("dispatch", "callback") :
        \E cb \in CallbackResults, stale \in BOOLEAN :
            LET f == Top(t)
                a == Ascend(objs[f.h], f.seen, stale, basicReturn(cb)) IN
            /\ objs' = [objs EXCEPT ![f.h] = a.h]
            /\ Step(t, AfterCall([f EXCEPT !.seen = NewEventHandler(0)],
                                 ID(objs[f.h]), a.ret), <<>>,
                    [sg EXCEPT !.cbCount = BagCountUp(@, f.h)])
            /\ UNCHANGED <<listeners, eventTypes, mutex, log, logTTL, now, crashed, budget>>

\* The terminal callback, before it returns, calls a method of the sink it
\* listens on: AddEventListener, Once, RemoveEventListener, Fire or Emit.
CallbackCalls ==
    \E t \in Running("dispatch", "callback") :
        \E op \in {"AddEventListener", "Once", "RemoveEventListener", "Fire", "Emit"},
           h \in 1..Len(objs) :
            LET f == Top(t)
                eventType == f.ev.type
                callee ==
                    CASE op = "AddEventListener" -> AddFrame(eventType, h)
                      [] op = "Once" -> AddFrame(eventType, Len(objs) + 1)
                      [] op = "RemoveEventListener" -> RemoveFrame(eventType, ID(objs[h]))
                      [] op = "Fire" -> FireFrame(f.ev, 0)
                      [] op = "Emit" -> EmitFrame(eventType, NumberData(f.ev.value), 0) IN
            /\ budget.reenter > 0
            /\ op = "Once" => objs[h].kind = "basic"
            /\ op = "AddEventListener" => objs[h].kind # "maxCalls"
            /\ objs' = IF op = "Once" THEN Append(objs, WithMaxCalls(objs[h], 1))
                       ELSE objs
            /\ budget' = [budget EXCEPT !.reenter = @ - 1]
            /\ Step(t, <<callee>> \o t, <<>>, sg)
            /\ UNCHANGED <<listeners, eventTypes, mutex, log, logTTL, now, crashed>>

DispatchExpired ==
    \E t \in Running("dispatch", "expired") :
        LET f == Top(t) IN
        /\ IF Expired(objs[f.h], now)
           THEN Step(t, <<RemoveFrame(f.ev.type, ID(objs[f.h])),
                          [f EXCEPT !.pc = "end", !.wasExpired = TRUE]>>, <<>>, sg)
           ELSE Step(t, <<Returned(f)>>, <<>>, sg)
        /\ UNCHANGED <<listeners, eventTypes, mutex, log, logTTL, now, objs, crashed, budget>>

(* --- RegisterEventType -------------------------------------------------- *)

RegisterEventTypeLock ==
    \E t \in Running("RegisterEventType", "lock") :
        /\ ~mutex
        /\ mutex' = TRUE
        /\ Step(t, <<[Top(t) EXCEPT !.pc = "body"]>> \o Tail(t), <<>>, sg)
        /\ UNCHANGED <<listeners, eventTypes, log, logTTL, now, objs, crashed, budget>>

RegisterEventTypeBody ==
    \E t \in Running("RegisterEventType", "body") :
        LET f == Top(t) IN
        /\ eventTypes' = MapSet(eventTypes, f.ev.type, f.ev)
        /\ mutex' = FALSE
        \* history: the last event registered for the type, and how many were
        /\ Step(t, <<Returned(f)>> \o Tail(t), <<>>,
                [sg EXCEPT !.lastReg = MapSet(@, f.ev.type, f.ev), !.nreg = @ + 1])
        /\ UNCHANGED <<listeners, log, logTTL, now, objs, crashed, budget>>

(* --- PrefixedEventSource: the namespaced view --------------------------- *)

\* NewPrefixedEventSource stores the prefix with its separator
NewPrefixedEventSource(prefix) == prefix \o "-"

ViewOps == {"AddEventListener", "RemoveEventListener", "Once", "Fire", "Emit",
            "RegisterEventType"}

ViewFn(op) == "PrefixedEventSource." \o op

\* a call of method op of the view es (its stored prefix): args holds the
\* arguments the method takes, eventType, h, id, ev, data, fid
ViewFrame(op, es, args) ==
    [fn |-> ViewFn(op), pc |-> "call", es |-> es, op |-> op, args |-> args]

IsViewFrame(f) == \E op \in ViewOps : f.fn = ViewFn(op)

\* viewCallee with an Emit that passes the event type on as it is
viewCalleeEmitUnprefixed(f) ==
    LET a == f.args
        eventType == f.es \o a.eventType IN
    CASE f.op = "AddEventListener" -> AddFrame(eventType, a.h)
      [] f.op = "RemoveEventListener" ->
            ViewFrame(f.op, f.es, [a EXCEPT !.eventType = eventType])
      [] f.op = "Once" ->
            ViewFrame(f.op, f.es, [a EXCEPT !.eventType = eventType])
      [] f.op = "Fire" -> FireFrame(As(a.ev, f.es \o a.ev.type), a.fid)
      [] f.op = "Emit" -> EmitFrame(a.eventType, a.data, a.fid)
      [] f.op = "RegisterEventType" -> RegisterFrame(As(a.ev, f.es \o a.ev.type))

\* The frame a view method calls.  RemoveEventListener and Once call
\* es.RemoveEventListener and es.Once, the view's own methods; the others
\* call the embedded sink's (es.EventSink).
viewCallee(f) ==
    LET a == f.args
        eventType == f.es \o a.eventType IN
    CASE f.op = "AddEventListener" -> AddFrame(eventType, a.h)
      [] f.op = "RemoveEventListener" ->
            ViewFrame(f.op, f.es, [a EXCEPT !.eventType = eventType])
      [] f.op = "Once" ->
            ViewFrame(f.op, f.es, [a EXCEPT !.eventType = eventType])
      [] f.op = "Fire" -> FireFrame(As(a.ev, f.es \o a.ev.type), a.fid)
      [] f.op = "Emit" -> EmitFrame(eventType, a.data, a.fid)
      [] f.op = "RegisterEventType" -> RegisterFrame(As(a.ev, f.es \o a.ev.type))

\* A view method makes its call; a goroutine whose stack is full dies of a
\* stack overflow, and the process with it.
ViewCall(op) ==
    \E t \in Running(ViewFn(op), "call") :
        LET f == Top(t) IN
        /\ IF Len(t) >= MaxStack
           THEN /\ crashed' = TRUE
                /\ UNCHANGED <<tasks, sg, harnessVars>>
           ELSE /\ crashed' = FALSE
                /\ Step(t, <<viewCallee(f), Returned(f)>> \o Tail(t), <<>>, sg)
        /\ UNCHANGED <<listeners, eventTypes, mutex, log, logTTL, now, objs, budget>>

ViewAddEventListener == ViewCall("AddEventListener")
ViewRemoveEventListener == ViewCall("RemoveEventListener")
ViewOnce == ViewCall("Once")
ViewFire == ViewCall("Fire")
ViewEmit == ViewCall("Emit")
ViewRegisterEventType == ViewCall("RegisterEventType")

(* --- the producers ------------------------------------------------------ *)

ProducerTypes == {"T"}
FireValues == {0, 1}

\* the bottom frame of a producer's goroutine: the producer's own code
ProducerFrame == [fn |-> "producer", pc |-> "end"]

\* a producer may make a call: it has calls left, and the goroutines alive
\* are fewer than MaxGoroutines
MayCall(calls) == ~crashed /\ calls > 0 /\ BagCardinality(tasks) < MaxGoroutines

\* a producer's goroutine makes the call of frame f
Start(f, sg2) ==
    /\ tasks' = tasks (+) SetToBag({<<f, ProducerFrame>>})
    /\ sg' = sg2
    /\ UNCHANGED harnessVars

\* history: a handler added again is no longer "removed"
Readded(eventType, id) ==
    [sg EXCEPT !.gone = @ \ {<<eventType, id>>},
               !.startGone = [x \in DOMAIN @ |->
                                 IF sg.fireType[x] = eventType THEN @[x] \ {id}
                                 ELSE @[x]]]

\* history: handler h is being registered for eventType, on the sink itself
\* (through = "sink") or on the view with the given prefix (through = "view")
Registered(s, through, prefix, eventType, h) ==
    [s EXCEPT !.reg = @ \cup {[through |-> through, prefix |-> prefix,
                               eventType |-> eventType, h |-> h]}]

\* a producer calls AddEventListener of the sink with a type of types
ProdAddOf(types) ==
    /\ MayCall(budget.add)
    /\ \E eventType \in types, h \in 1..Len(objs) :
         /\ objs[h].kind # "maxCalls"
         /\ Start(AddFrame(eventType, h),
                  Registered(Readded(eventType, ID(objs[h])), "sink", "", eventType, h))
    /\ budget' = [budget EXCEPT !.add = @ - 1]
    /\ UNCHANGED <<listeners, eventTypes, mutex, log, logTTL, now, objs, crashed>>

ProdAddEventListener == ProdAddOf(ProducerTypes)

ProdOnce ==
    /\ MayCall(budget.once)
    /\ \E eventType \in ProducerTypes, h \in 1..Len(objs) :
         /\ objs[h].kind = "basic"
         /\ objs' = Append(objs, WithMaxCalls(objs[h], 1))
         /\ Start(AddFrame(eventType, Len(objs) + 1),
                  Readded(eventType, ID(objs[h])))
    /\ budget' = [budget EXCEPT !.once = @ - 1]
    /\ UNCHANGED <<listeners, eventTypes, mutex, log, logTTL, now, crashed>>

ProdRemoveEventListener ==
    /\ MayCall(budget.remove)
    /\ \E eventType \in ProducerTypes, id \in HandlerIDs :
         Start(RemoveFrame(eventType, id), sg)
    /\ budget' = [budget EXCEPT !.remove = @ - 1]
    /\ UNCHANGED <<listeners, eventTypes, mutex, log, logTTL, now, objs, crashed>>

\* history: Fire number fid starts
Fired(fid, eventType) ==
    [sg EXCEPT !.nfire = fid,
               !.startReg = MapSet(@, fid, Lookup(listeners, eventType)),
               !.fireType = MapSet(@, fid, eventType),
               !.startGone = MapSet(@, fid, {id \in HandlerIDs :
                                                <<eventType, id>> \in sg.gone})]

ProdFireOf(values) ==
    /\ MayCall(budget.fire)
    /\ \E eventType \in ProducerTypes, v \in values :
         Start(FireFrame(valueEvent(eventType, now, v), sg.nfire + 1),
               Fired(sg.nfire + 1, eventType))
    /\ budget' = [budget EXCEPT !.fire = @ - 1]
    /\ UNCHANGED <<listeners, eventTypes, mutex, log, logTTL, now, objs, crashed>>

ProdFire == ProdFireOf(FireValues)

\* a producer fires an event that is no value event: a message, a plain event
ProdFireOther ==
    /\ MayCall(budget.fire)
    /\ \E eventType \in ProducerTypes :
         \E ev \in {messageEvent(eventType, now),
                    basicEvent(eventType, now, ListenerMeta("", 0, ""))} :
             Start(FireFrame(ev, sg.nfire + 1), Fired(sg.nfire + 1, eventType))
    /\ budget' = [budget EXCEPT !.fire = @ - 1]
    /\ UNCHANGED <<listeners, eventTypes, mutex, log, logTTL, now, objs, crashed>>

ProdEmit ==
    /\ MayCall(budget.emit)
    /\ \E eventType \in ProducerTypes, v \in FireValues :
         Start(EmitFrame(eventType, NumberData(v), sg.nfire + 1),
               Fired(sg.nfire + 1, eventType))
    /\ budget' = [budget EXCEPT !.emit = @ - 1]
    /\ UNCHANGED <<listeners, eventTypes, mutex, log, logTTL, now, objs, crashed>>

ViewPrefixes == {"ns"}
ViewTypes == {"x"}

\* history: Fire number fid is a Fire or Emit of eventType on the view made
\* with prefix
FiredThrough(s, fid, prefix, eventType) ==
    [s EXCEPT !.through = MapSet(@, fid, [prefix |-> prefix, eventType |-> eventType])]

\* a producer calls the write method op (of ops) of a view made with a prefix
\* of prefixes, with an event type of types
ProdViewOf(ops, prefixes, types) ==
    /\ MayCall(budget.view)
    /\ \E op \in ops, prefix \in prefixes, eventType \in types,
          h \in 1..Len(objs), v \in FireValues :
         LET fid == IF op \in {"Fire", "Emit"} THEN sg.nfire + 1 ELSE 0
             args == [eventType |-> eventType, h |-> h, id |-> ID(objs[h]),
                      ev |-> valueEvent(eventType, now, v),
                      data |-> NumberData(v), fid |-> fid]
             es == NewPrefixedEventSource(prefix) IN
         Start(ViewFrame(op, es, args),
               IF fid # 0
               THEN FiredThrough(Fired(fid, es \o eventType), fid, prefix, eventType)
               ELSE IF op = "AddEventListener"
               THEN Registered(sg, "view", prefix, eventType, h)
               ELSE sg)
    /\ budget' = [budget EXCEPT !.view = @ - 1]
    /\ UNCHANGED <<listeners, eventTypes, mutex, log, logTTL, now, objs, crashed>>

ProdView == ProdViewOf(ViewOps, ViewPrefixes, ViewTypes)

(* --- the sink's initial state and its steps ----------------------------- *)

NoBudget == [add |-> 0, once |-> 0, remove |-> 0, fire |-> 0, emit |-> 0,
             view |-> 0, reenter |-> 0]

NoHistory ==
    [done |-> {}, called |-> EmptyBag, cbCount |-> EmptyBag, snap |-> <<>>,
     nfire |-> 0, fireType |-> <<>>, gone |-> {}, startGone |-> <<>>,
     removed |-> 0, reg |-> {}, startReg |-> <<>>, through |-> <<>>,
     logFid |-> <<>>, nins |-> 0, afterFire |-> [fid |-> 0],
     firstFired |-> <<>>, lastReg |-> <<>>, nreg |-> 0,
     nrem |-> 0, remKeys |-> {}, vain |-> {}]

\* A sink made with a negative logTTL keeps no log: every Fire prunes the
\* event it has just inserted.
NoLog == -1

\* NewEventSink(ttl), and the handlers the producers hold
NewEventSink(ttl, handlers, calls) ==
    /\ logTTL = ttl
    /\ listeners = <<>>
    /\ eventTypes = <<>>
    /\ mutex = FALSE
    /\ log = <<>>
    /\ now = 0
    /\ objs = handlers
    /\ tasks = EmptyBag
    /\ crashed = FALSE
    /\ budget = calls
    /\ sg = NoHistory

Handler1 == NewEventHandler(1)

NoCall == [made |-> FALSE]

IdleHarness ==
    /\ flt = Handler1
    /\ ncalls = 0
    /\ lastCall = NoCall
    /\ gh = [nfwd |-> 0]

IdleSink == NewEventSink(0, <<>>, NoBudget)

(* --- Once: one handler added with Once, and fires ----------------------- *)

MaxOnceFires == 2

InitOnce ==
    /\ NewEventSink(NoLog, <<NewEventHandler(1)>>,
                    [NoBudget EXCEPT !.once = 1, !.fire = MaxOnceFires])
    /\ IdleHarness

NextOnce ==
    \/ ProdOnce \/ ProdFire
    \/ AddEventListenerLock \/ AddEventListenerBody
    \/ RemoveEventListenerLock \/ RemoveEventListenerBody
    \/ EmitNew \/ FireLog \/ FirePrune \/ FireLock \/ FireSnapshot
    \/ DispatchCall \/ DispatchCallback \/ DispatchExpired

SpecOnce == InitOnce /\ [][NextOnce]_vars

(* --- the view: calls of its write methods ------------------------------- *)

MaxViewCalls == 3

InitView ==
    /\ NewEventSink(NoLog, <<NewEventHandler(1)>>, [NoBudget EXCEPT !.view = MaxViewCalls])
    /\ IdleHarness

NextView ==
    \/ ProdView
    \/ ViewAddEventListener \/ ViewRemoveEventListener \/ ViewOnce
    \/ ViewFire \/ ViewEmit \/ ViewRegisterEventType
    \/ AddEventListenerLock \/ AddEventListenerBody
    \/ RegisterEventTypeLock \/ RegisterEventTypeBody
    \/ EmitNew \/ FireLog \/ FirePrune \/ FireLock \/ FireSnapshot
    \/ DispatchCall \/ DispatchCallback \/ DispatchExpired

SpecView == InitView /\ [][NextView]_vars

\* the method of the underlying sink that a view method stands for
sinkFnOf(f) ==
    IF f.op = "Once" THEN "AddEventListener" ELSE f.op

\* C3: every write method of a view with prefix p, called with event type t,
\* terminates, and the one call it makes is the same method of the underlying
\* sink with event type p + "-" + t (for Once: an AddEventListener of a
\* Max-calls(1) wrapper).
C3_ViewWriteDelegatesToSink ==
    /\ ~crashed
    /\ \A t \in BagToSet(tasks) : \A i \in 2..Len(t) :
          IsViewFrame(t[i]) =>
             /\ t[i - 1].fn \in {sinkFnOf(t[i]), "Fire"}
             /\ t[i].op = "Once" => objs[t[i - 1].h].kind = "maxCalls"
             /\ t[i].op \in {"AddEventListener", "RemoveEventListener", "Once"} =>
                   t[i - 1].eventType = t[i].es \o t[i].args.eventType

\* how often x occurs in the sequence s
Occurrences(s, x) == Cardinality({i \in 1..Len(s) : s[i] = x})

\* history: the Calls made so far on listener h for Fire number fid
CallsMade(fid, h) == CopiesIn(<<fid, h>>, sg.called)

\* the goroutines of Fire number fid that have yet to Call listener h
CallsToCome(fid, h) ==
    LET waiting == {t \in BagToSet(tasks) :
                       \E i \in 1..Len(t) :
                           /\ t[i].fn = "dispatch" /\ t[i].pc = "call"
                           /\ t[i].fid = fid /\ t[i].h = h}
        count[ts \in SUBSET waiting] ==
            IF ts = {} THEN 0
            ELSE LET t == CHOOSE x \in ts : TRUE IN
                 CopiesIn(t, tasks) + count[ts \ {t}] IN
    count[waiting]

(* --- views and the sink side by side: who is reached -------------------- *)

MaxIsolationAdds == 1
MaxIsolationViewCalls == 2

IsolationPrefixes == {"ns", "o"}
IsolationTypes == {"x"}
IsolationSinkTypes == {"x", "ns-x"}
IsolationOps == {"AddEventListener", "Emit", "Fire"}

InitIsolation ==
    /\ NewEventSink(NoLog, <<NewEventHandler(1), NewEventHandler(2)>>,
                    [NoBudget EXCEPT !.add = MaxIsolationAdds,
                                     !.view = MaxIsolationViewCalls])
    /\ IdleHarness

NextIsolation ==
    \/ ProdAddOf(IsolationSinkTypes)
    \/ ProdViewOf(IsolationOps, IsolationPrefixes, IsolationTypes)
    \/ ViewAddEventListener \/ ViewFire \/ ViewEmit
    \/ AddEventListenerLock \/ AddEventListenerBody
    \/ EmitNew \/ FireLog \/ FirePrune \/ FireLock \/ FireSnapshot
    \/ DispatchCall \/ DispatchCallback \/ DispatchExpired

SpecIsolation == InitIsolation /\ [][NextIsolation]_vars

\* the registry key the contract gives a registration: the type itself on
\* the sink, prefix-type through a view
KeyOf(r) ==
    IF r.through = "view" THEN r.prefix \o "-" \o r.eventType ELSE r.eventType

\* C11: a Fire or Emit of type t on the view with prefix p, once it has taken
\* its listeners: it Calls every handler that was registered under p-t when
\* it started, and Calls no handler but those registered under p-t (through
\* the view with prefix p for t, or on the sink as p-t): never one registered
\* only under t on the sink or through a view with another prefix.
C11_ViewEmitReachesOwnListeners ==
    \A fid \in DOMAIN sg.through \cap DOMAIN sg.snap : \A h \in 1..Len(objs) :
        LET key == sg.through[fid].prefix \o "-" \o sg.through[fid].eventType
            calls == CallsMade(fid, h) + CallsToCome(fid, h) IN
        /\ Occurrences(sg.startReg[fid], h) > 0 => calls > 0
        /\ calls > 0 => \E r \in sg.reg : r.h = h /\ KeyOf(r) = key

\* C11 witness: an Emit on the view "ns" has Called handler 1, added through
\* that view, and not handler 2, which is registered under "x" on the sink or
\* through the view "o".
C11_Witness ==
    /\ tasks = EmptyBag
    /\ \E r \in sg.reg : r.h = 2 /\ KeyOf(r) # "ns-x"
    /\ \E fid \in DOMAIN sg.snap \cap DOMAIN sg.through :
          /\ sg.through[fid].prefix = "ns"
          /\ CallsMade(fid, 1) = 1
          /\ CallsMade(fid, 2) = 0

(* --- views and the sink side by side: what a view's Log returns --------- *)

\* which events of all PrefixedEventSource.Filter keeps
filterKeep(es, all) == [i \in 1..Len(all) |-> HasPrefix(all[i].type, es)]

\* PrefixedEventSource.Filter
Filter(es, all) ==
    LET kept == SelectIdx(all, filterKeep(es, all)) IN
    [i \in 1..Len(kept) |-> As(kept[i], TrimPrefix(kept[i].type, es))]

\* basicEventSink.Log, PrefixedEventSource.Log
Log == log
ViewLog(es) == Filter(es, Log)

MaxLogViewCalls == 2
MaxLogFires == 1

LogPrefixes == {"ns", "ns-a"}
LogTypes == {"x", "a-x"}
LogOps == {"Fire", "Emit"}

\* a sink that keeps every event fired at the present moment
InitViewLog ==
    /\ NewEventSink(0, <<NewEventHandler(1)>>,
                    [NoBudget EXCEPT !.view = MaxLogViewCalls, !.fire = MaxLogFires])
    /\ IdleHarness

NextViewLog ==
    \/ ProdFire
    \/ ProdViewOf(LogOps, LogPrefixes, LogTypes)
    \/ ViewFire \/ ViewEmit
    \/ EmitNew \/ FireLog \/ FirePrune \/ FireLock \/ FireSnapshot

SpecViewLog == InitViewLog /\ [][NextViewLog]_vars

\* history: the Fires that inserted the events a view's Log returns, in order
ViewLogFids(es) == SelectIdx(sg.logFid, filterKeep(es, Log))

\* C12: every event that Log() of the view with prefix p returns was fired
\* through that view (not through a view with another prefix, nor on the
\* sink), and its type is the type that was passed to the view.
C12_ViewLogOnlyOwnEvents ==
    \A p \in LogPrefixes :
        LET es == NewPrefixedEventSource(p)
            out == ViewLog(es)
            by == ViewLogFids(es) IN
        \A i \in 1..Len(out) :
            /\ by[i].fid \in DOMAIN sg.through
            /\ sg.through[by[i].fid].prefix = p
            /\ sg.through[by[i].fid].eventType = out[i].type

(* --- the log: fires while time passes ----------------------------------- *)

MaxNow == 3
MaxLogTTL == 1
MaxRetentionFires == 3

\* time passes
Tick ==
    /\ now < MaxNow
    /\ now' = now + 1
    /\ UNCHANGED <<listeners, eventTypes, mutex, log, logTTL, objs, tasks, crashed,
                   budget, sg, harnessVars>>

InitRetention ==
    /\ \E ttl \in 0..MaxLogTTL :
          NewEventSink(ttl, <<NewEventHandler(1)>>,
                       [NoBudget EXCEPT !.fire = MaxRetentionFires])
    /\ IdleHarness

NextRetention ==
    \/ Tick
    \/ ProdFire
    \/ FireLog \/ FirePrune \/ FireLock \/ FireSnapshot

SpecRetention == InitRetention /\ [][NextRetention]_vars

\* sg.afterFire: the log as it was when the last Fire returned, with the
\* oldest time that Fire's prune kept (recorded by a sink that keeps a log).
FireReturned == sg.afterFire.fid # 0

\* the entries of the log are in the order of their insertion, newest first
NewestFirst(fids) == \A i, j \in 1..Len(fids) : i < j => fids[i].n > fids[j].n

\* an entry of the log that is within the retention stays in the log
KeepsRecent ==
    \A i \in 1..Len(log) :
        log[i].time >= now - logTTL =>
            \E j \in 1..Len(log') : sg'.logFid[j] = sg.logFid[i] /\ log'[j] = log[i]

\* C13 as stated: when a Fire has returned, the log holds no event older than
\* the time of that Fire's prune minus the retention.
C13_NoOldEventAfterFire ==
    FireReturned =>
        \A i \in 1..Len(sg.afterFire.log) :
            sg.afterFire.log[i].time >= sg.afterFire.oldest

\* C13, amended: when a Fire has returned, every event in the log older than
\* the time of that Fire's prune minus the retention was inserted after that
\* prune (by a Fire that has yet to prune); no step drops an event that is
\* within the retention; and the log lists its events in the order of their
\* insertion, newest first.
C13_LogRetention ==
    /\ [](FireReturned =>
            /\ \A i \in 1..Len(sg.afterFire.log) :
                  \/ sg.afterFire.log[i].time >= sg.afterFire.oldest
                  \/ sg.afterFire.logFid[i].n > sg.afterFire.inserted
            /\ NewestFirst(sg.afterFire.logFid))
    /\ [][KeepsRecent]_vars

\* C13 witness: a Fire has returned after its prune dropped an event, and an
\* older event that is still within the retention is in the log behind a
\* newer one.
C13_Witness ==
    /\ FireReturned
    /\ Len(sg.afterFire.log) >= 2
    /\ sg.nins > Len(sg.afterFire.log)
    /\ sg.afterFire.log[2].time >= sg.afterFire.now - logTTL

(* --- the catalog of event types ----------------------------------------- *)

\* The byte order of the characters that occur in event types: Go compares
\* strings byte by byte.
Alphabet == "-Tabcdefghijklmnopqrstuvwxyz"
CharRank(c) == CHOOSE i \in 1..Len(Alphabet) : SubSeq(Alphabet, i, i) = c

RECURSIVE StrLess(_, _)
\* a < b on Go strings
StrLess(a, b) ==
    IF b = "" THEN FALSE
    ELSE IF a = "" THEN TRUE
    ELSE LET ca == CharRank(SubSeq(a, 1, 1))
             cb == CharRank(SubSeq(b, 1, 1)) IN
         IF ca # cb THEN ca < cb
         ELSE StrLess(SubSeq(a, 2, Len(a)), SubSeq(b, 2, Len(b)))

RECURSIVE SortByType(_)
\* sort.Slice by GetType over the events evs (their types differ: they are
\* the values of a map keyed by type)
SortByType(evs) ==
    IF evs = {} THEN <<>>
    ELSE LET first == CHOOSE e \in evs : \A o \in evs \ {e} : StrLess(e.type, o.type) IN
         <<first>> \o SortByType(evs \ {first})

\* basicEventSink.ListEventTypes
ListEventTypes == SortByType({eventTypes[k] : k \in DOMAIN eventTypes})

MaxCatalogViewCalls == 3
MaxCatalogFires == 1

CatalogOps == {"Fire", "RegisterEventType"}
CatalogPrefixes == {"ns"}
CatalogTypes == {"x", "a"}

InitCatalog ==
    /\ NewEventSink(NoLog, <<NewEventHandler(1)>>,
                    [NoBudget EXCEPT !.view = MaxCatalogViewCalls,
                                     !.fire = MaxCatalogFires])
    /\ IdleHarness

NextCatalog ==
    \/ ProdFire
    \/ ProdViewOf(CatalogOps, CatalogPrefixes, CatalogTypes)
    \/ ViewFire \/ ViewRegisterEventType
    \/ RegisterEventTypeLock \/ RegisterEventTypeBody
    \/ FireLog \/ FirePrune \/ FireLock \/ FireSnapshot

SpecCatalog == InitCatalog /\ [][NextCatalog]_vars

\* a step that changes the entry of a type is a RegisterEventType of it
OnlyRegisterReplaces ==
    \A k \in DOMAIN eventTypes :
        /\ k \in DOMAIN eventTypes'
        /\ eventTypes'[k] # eventTypes[k] =>
              /\ sg'.nreg = sg.nreg + 1
              /\ eventTypes'[k] = sg'.lastReg[k]

\* C14: the catalog has an entry for the types registered or fired; the entry
\* of a type is the event of the last RegisterEventType of it, or, none having
\* been made, the first event of the type fired; no Fire replaces an entry;
\* and ListEventTypes returns one entry for each type, ascending by type.
C14_CatalogEntries ==
    /\ [](/\ DOMAIN eventTypes = DOMAIN sg.lastReg \cup DOMAIN sg.firstFired
          /\ \A k \in DOMAIN eventTypes :
                eventTypes[k] = IF k \in DOMAIN sg.lastReg THEN sg.lastReg[k]
                                ELSE sg.firstFired[k]
          /\ LET l == ListEventTypes IN
             /\ {l[i].type : i \in 1..Len(l)} = DOMAIN eventTypes
             /\ \A i \in 1..Len(l) : l[i] = eventTypes[l[i].type]
             /\ \A i, j \in 1..Len(l) : i < j => StrLess(l[i].type, l[j].type))
    /\ [][OnlyRegisterReplaces]_vars

\* C14 witness: a type was fired with one event and then again with another,
\* a second type was registered twice, and three types are listed.
C14_Witness ==
    /\ tasks = EmptyBag
    /\ Len(ListEventTypes) = 3
    /\ sg.nreg = 2
    /\ \E k \in DOMAIN sg.lastReg : k \in DOMAIN sg.firstFired
                                      /\ sg.lastReg[k] # sg.firstFired[k]

(* --- value filters given events without a value ------------------------ *)

MaxIncompatibleFires == 1

\* h1 behind a direction filter, h2 behind a threshold filter, h3 behind a
\* range filter
IncompatibleHandlers ==
    <<WithDirection(NewEventHandler(1), DirectionIncreasing),
      WithThreshold(NewEventHandler(2), DirectionIncreasing, 1, 0),
      WithRange(NewEventHandler(3), 0, 1)>>

\* the three handlers after a Call each with the value 1
IncompatibleHandlersUsed ==
    [r \in 1..Len(IncompatibleHandlers) |->
        Call(IncompatibleHandlers[r], valueEvent("T", 0, 1), ErrNil).h]

\* The sink after AddEventListener("T", h) has returned for the three
\* handlers, before any event or after a value event.
InitIncompatible ==
    /\ logTTL = NoLog
    /\ listeners = MapSet(<<>>, "T", <<1, 2, 3>>)
    /\ eventTypes = <<>>
    /\ mutex = FALSE
    /\ log = <<>>
    /\ now = 0
    /\ objs \in {IncompatibleHandlers, IncompatibleHandlersUsed}
    /\ tasks = EmptyBag
    /\ crashed = FALSE
    /\ budget = [NoBudget EXCEPT !.fire = MaxIncompatibleFires]
    /\ sg = NoHistory
    /\ IdleHarness

NextIncompatible ==
    \/ ProdFireOf({1}) \/ ProdFireOther
    \/ EmitNew \/ FireLog \/ FirePrune \/ FireLock \/ FireSnapshot
    \/ DispatchCall \/ DispatchCallback \/ DispatchExpired

SpecIncompatible == InitIncompatible /\ [][NextIncompatible]_vars

ValueFilters == {"direction", "threshold", "range"}

\* the goroutines about to Call a value filter with an event without a value
CallingIncompatible ==
    {t \in BagToSet(tasks) :
        /\ Top(t).fn = "dispatch" /\ Top(t).pc = "call"
        /\ objs[Top(t).h].kind \in ValueFilters
        /\ ~IsValueEvent(Top(t).ev)}

\* the Call of such a goroutine: the handlers stay as they are, and the
\* goroutine goes on to emit a listener-error
RefusesIncompatible ==
    \A t \in CallingIncompatible :
        CopiesIn(t, tasks') < CopiesIn(t, tasks) =>
            /\ objs' = objs
            /\ sg'.cbCount = sg.cbCount
            /\ \E u \in BagToSet(tasks') :
                  /\ Len(u) = 2
                  /\ u[1] = EmitFrame(EventTypeHandlerError,
                                      ListenerMeta(Top(t).ev.type, ID(objs[Top(t).h]),
                                                   ErrIncompatibleEvent), 0)
                  /\ u[2] = [Top(t) EXCEPT !.pc = "expired", !.ret = ErrIncompatibleEvent]
                  /\ CopiesIn(u, tasks') > CopiesIn(u, tasks)

\* C19: a direction, threshold or range filter Called by the sink with a
\* message or a plain event leaves its fields and its inner handler alone and
\* returns "incompatible event"; the goroutine of that Call, when it finishes,
\* has emitted one event, a listener-error with the fired type, the handler's
\* id and that error, and has not removed the listener, which stays
\* registered.
C19_IncompatibleReported ==
    /\ [][RefusesIncompatible]_vars
    /\ [](/\ \A d \in sg.done :
                d.ret = ErrIncompatibleEvent =>
                    /\ Len(d.emitted) = 1
                    /\ d.emitted[1].type = EventTypeHandlerError
                    /\ d.emitted[1].data =
                          ListenerMeta(d.eventType, ID(objs[d.h]), ErrIncompatibleEvent)
                    /\ d.removes = 0
          /\ Lookup(listeners, "T") = <<1, 2, 3>>)

\* C19 witness: the goroutine of the threshold filter, triggered by an earlier
\* value, has finished a Call with a message event, and all is quiet
C19_Witness ==
    /\ tasks = EmptyBag
    /\ "T" \in DOMAIN eventTypes /\ eventTypes["T"].kind = "message"
    /\ \E d \in sg.done : d.ret = ErrIncompatibleEvent /\ d.h = 2
    /\ objs[2].triggered
    /\ EventTypeHandlerError \in DOMAIN eventTypes

(* --- a listener of listener-error --------------------------------------- *)

\* The sink after AddEventListener("T", h1) and
\* AddEventListener("listener-error", h1) have returned and their listener-add
\* events have been fired.
InitQuiescence ==
    /\ logTTL = NoLog
    /\ listeners = MapSet(MapSet(<<>>, "T", <<1>>), EventTypeHandlerError, <<1>>)
    /\ eventTypes = MapSet(<<>>, EventTypeHandlerAdded,
                           NewEvent(EventTypeHandlerAdded, ListenerMeta("T", 1, ""), 0))
    /\ mutex = FALSE
    /\ log = <<>>
    /\ now = 0
    /\ objs = <<NewEventHandler(1)>>
    /\ tasks = EmptyBag
    /\ crashed = FALSE
    /\ budget = [NoBudget EXCEPT !.fire = 1]
    /\ sg = NoHistory
    /\ IdleHarness

QuiescenceSteps ==
    \/ EmitNew \/ FireLog \/ FirePrune \/ FireLock \/ FireSnapshot
    \/ DispatchCall \/ DispatchCallback \/ DispatchExpired

NextQuiescence == ProdFire \/ QuiescenceSteps

\* The Go scheduler runs every goroutine that can run.
SpecQuiescence ==
    InitQuiescence /\ [][NextQuiescence]_vars /\ WF_vars(QuiescenceSteps)

\* C20: after the producers' calls (finitely many) the sink comes to rest: from
\* some time on no goroutine of a dispatch or of a meta-event is pending, so
\* that only finitely many listener-add, listener-remove and listener-error
\* events are fired, whatever the listeners answer.
C20_Quiescence == <>[](tasks = EmptyBag)

(* --- listeners that call the sink --------------------------------------- *)

MaxReentrantFires == 1
MaxReentrantCalls == 1

InitReentrant ==
    /\ NewEventSink(NoLog, <<NewEventHandler(1)>>,
                    [NoBudget EXCEPT !.add = 1, !.fire = MaxReentrantFires,
                                     !.reenter = MaxReentrantCalls])
    /\ IdleHarness

ReentrantSteps ==
    \/ AddEventListenerLock \/ AddEventListenerBody
    \/ RemoveEventListenerLock \/ RemoveEventListenerBody
    \/ EmitNew \/ FireLog \/ FirePrune \/ FireLock \/ FireSnapshot
    \/ DispatchCall \/ CallbackCalls \/ DispatchCallback \/ DispatchExpired

NextReentrant ==
    \/ ProdAddEventListener \/ ProdFire
    \/ ReentrantSteps

\* The Go scheduler runs every goroutine that can run.
SpecReentrant == InitReentrant /\ [][NextReentrant]_vars /\ WF_vars(ReentrantSteps)

\* the frames that run under the mutex
HoldsMutex(f) == f.pc \in {"body", "snapshot"}

\* C16: the frame that holds the mutex is the running frame of its goroutine
\* (it has called no listener, Emit or Fire); while a goroutine is alive some
\* goroutine can take a step; and again and again every call has returned and
\* every goroutine has finished, listeners that call AddEventListener, Once,
\* RemoveEventListener, Fire or Emit of the sink included.
C16_NoDeadlock ==
    /\ [](/\ \A t \in BagToSet(tasks) : \A i \in 1..Len(t) : HoldsMutex(t[i]) => i = 1
          /\ mutex <=> \E t \in BagToSet(tasks) : HoldsMutex(Top(t))
          /\ tasks # EmptyBag => ENABLED ReentrantSteps)
    /\ []<>(tasks = EmptyBag)

\* C16 witness: a callback has called a method of the sink that takes the
\* mutex, and that call is running under the mutex.
C16_Witness ==
    \E t \in BagToSet(tasks) :
        /\ Len(t) >= 2
        /\ HoldsMutex(Top(t))
        /\ t[2].fn = "dispatch" /\ t[2].pc = "callback"

(* --- the sink: listeners added and removed, and fires ------------------- *)

MaxAdds == 2
MaxRemoves == 1
MaxFires == 1

SinkHandlers == <<NewEventHandler(1), WithRange(NewEventHandler(2), 1, 1)>>

InitSink ==
    /\ NewEventSink(NoLog, SinkHandlers,
                    [NoBudget EXCEPT !.add = MaxAdds, !.remove = MaxRemoves,
                                     !.fire = MaxFires])
    /\ IdleHarness

SinkSteps ==
    \/ AddEventListenerLock \/ AddEventListenerBody
    \/ RemoveEventListenerLock \/ RemoveEventListenerBody
    \/ EmitNew \/ FireLog \/ FirePrune \/ FireLock \/ FireSnapshot
    \/ DispatchCall \/ DispatchCallback \/ DispatchExpired

NextSink ==
    \/ ProdAddEventListener \/ ProdRemoveEventListener \/ ProdFire
    \/ SinkSteps

SpecSink == InitSink /\ [][NextSink]_vars

\* The Go scheduler runs every goroutine that can run, and a goroutine
\* waiting for the mutex gets it once the holders have unlocked: no goroutine
\* of the sink stops while it has a step to take.
SpecSinkLive == SpecSink /\ WF_vars(SinkSteps)

(* --- removal of listeners ----------------------------------------------- *)

MaxRemovalFires == 2

InitRemoval ==
    /\ NewEventSink(NoLog, <<NewEventHandler(1), NewEventHandler(2)>>,
                    [NoBudget EXCEPT !.once = 1, !.remove = 1,
                                     !.fire = MaxRemovalFires])
    /\ IdleHarness

NextRemoval ==
    \/ ProdOnce \/ ProdRemoveEventListener \/ ProdFireOf({0})
    \/ SinkSteps

SpecRemoval == InitRemoval /\ [][NextRemoval]_vars

\* the listener-remove events handed to Fire and not yet fired
PendingRemoved ==
    BagCardinality([t \in {u \in BagToSet(tasks) :
                              /\ Top(u).fn = "Fire" /\ Top(u).pc = "log"
                              /\ Top(u).ev.type = EventTypeHandlerRemoved}
                    |-> CopiesIn(t, tasks)])

\* the RemoveEventListener call that is under the mutex
Removing == {t \in BagToSet(tasks) : Top(t).fn = "RemoveEventListener"
                                       /\ Top(t).pc = "body"}

\* the entries of the registry with the type and id of call f
Registrations(f) ==
    LET cur == Lookup(listeners, f.eventType) IN
    {i \in 1..Len(cur) : ID(objs[cur[i]]) = f.id}

\* a step of RemoveEventListener's body: what it removes and what it fires
RemoveAccounts ==
    \A t \in Removing :
        LET f == Top(t)
            cur == Lookup(listeners, f.eventType)
            n == Cardinality(Registrations(f)) IN
        (mutex /\ ~mutex') =>
            /\ sg'.removed = sg.removed + n
            /\ PendingRemoved' = PendingRemoved + n
            /\ \A other \in DOMAIN listeners \ {f.eventType} :
                   other \in DOMAIN listeners' /\ listeners'[other] = listeners[other]
            /\ n = 0 => listeners' = listeners /\ BagCardinality(tasks') <= BagCardinality(tasks)
            /\ n > 0 =>
                  /\ Lookup(listeners', f.eventType) =
                        SelectSeq(cur, LAMBDA h : ID(objs[h]) # f.id)
                  /\ <<f.eventType, f.id>> \in sg'.remKeys

\* a listener-remove event as it is fired names a removed type and id
FiresRemoved ==
    sg'.nrem # sg.nrem =>
        /\ Head(log').type = EventTypeHandlerRemoved
        /\ <<Head(log').data.event_type, Head(log').data.handler_id>> \in sg.remKeys
        /\ Head(log').data.error = ""

\* C17: the listener-remove events fired and to be fired are as many as the
\* registry entries removed, and each names the type and id of a removed
\* handler; a RemoveEventListener that finds no entry (the call of a producer,
\* or of the second of two goroutines retiring the same expired handler) fires
\* nothing and leaves the registry as it was; no type is registered with an
\* empty list.
C17_RemovalAccounting ==
    /\ [](/\ sg.nrem + PendingRemoved = sg.removed
          /\ \A eventType \in DOMAIN listeners : Len(listeners[eventType]) > 0)
    /\ [][RemoveAccounts /\ FiresRemoved]_vars

\* C17 witness: all is quiet; an entry was removed and its event fired; a
\* goroutine for a listener has called RemoveEventListener for a handler
\* another goroutine had retired, and a producer has called it for an id not
\* registered under a type that had a listener
C17_Witness ==
    /\ tasks = EmptyBag
    /\ sg.removed >= 1 /\ sg.nrem = sg.removed
    /\ <<"dispatch", FALSE>> \in sg.vain
    /\ <<"producer", TRUE>> \in sg.vain

C9_RemovedListenerNotCalled ==
    /\ \A fid \in DOMAIN sg.startGone : \A h \in 1..Len(objs) :
          ID(objs[h]) \in sg.startGone[fid] =>
              CallsMade(fid, h) + CallsToCome(fid, h) = 0
    /\ \A fid \in DOMAIN sg.snap : \A h \in 1..Len(objs) :
          CallsMade(fid, h) + CallsToCome(fid, h) = Occurrences(sg.snap[fid], h)

\* C9 witness: a Fire that started after a handler had been registered and
\* removed has taken its listeners, and every goroutine has finished.
C9_Witness ==
    /\ tasks = EmptyBag
    /\ sg.removed > 0
    /\ \E fid \in DOMAIN sg.snap : sg.startGone[fid] # {}

(* --- outcomes: a sink with two listeners, and fires --------------------- *)

MaxOutcomeFires == 2

\* the handlers: h1; h2 behind a range filter that admits only the value 1;
\* and the Max-calls(1) wrapper of h1 that Once has made
OutcomeHandlers ==
    <<NewEventHandler(1), WithRange(NewEventHandler(2), 1, 1),
      WithMaxCalls(NewEventHandler(1), 1)>>

\* The sink after Once("T", h1) and AddEventListener("T", range filter) have
\* returned and their listener-add events have been fired.
InitOutcome ==
    /\ logTTL = NoLog
    /\ listeners = MapSet(<<>>, "T", <<3, 2>>)
    /\ eventTypes = MapSet(<<>>, EventTypeHandlerAdded,
                           NewEvent(EventTypeHandlerAdded, ListenerMeta("T", 1, ""), 0))
    /\ mutex = FALSE
    /\ log = <<>>
    /\ now = 0
    /\ objs = OutcomeHandlers
    /\ tasks = EmptyBag
    /\ crashed = FALSE
    /\ budget = [NoBudget EXCEPT !.fire = MaxOutcomeFires]
    /\ sg = NoHistory
    /\ IdleHarness

NextOutcome ==
    \/ ProdFire
    \/ RemoveEventListenerLock \/ RemoveEventListenerBody
    \/ EmitNew \/ FireLog \/ FirePrune \/ FireLock \/ FireSnapshot
    \/ DispatchCall \/ DispatchCallback \/ DispatchExpired

SpecOutcome == InitOutcome /\ [][NextOutcome]_vars

\* C10: what the goroutine for a listener had done when it finished.  Its
\* Call returned "expired": it has created no event, and has removed the
\* listener, which is then not registered.  Its Call returned nil or
\* "ignored": it has created no event, and has called RemoveEventListener only
\* if the handler said it was expired.  Its Call returned another error: it
\* has created one event, a "listener-error" with the fired event's type, the
\* handler's ID and the error.
C10_ListenerOutcome ==
    \A d \in sg.done :
        /\ d.ret = ErrExpired =>
              d.emitted = <<>> /\ d.removes = 1 /\ ~d.stillThere
        /\ d.ret \in {ErrNil, ErrIgnored} =>
              d.emitted = <<>> /\ (d.removes > 0 => d.wasExpired)
        /\ d.ret \notin {ErrNil, ErrIgnored, ErrExpired} =>
              /\ Len(d.emitted) = 1
              /\ d.emitted[1].type = EventTypeHandlerError
              /\ d.emitted[1].data.event_type = d.eventType
              /\ d.emitted[1].data.handler_id = ID(objs[d.h])
              /\ d.emitted[1].data.error = d.ret

\* C10 witness: a goroutine whose Call returned "expired" has finished, after
\* one whose Call returned an error that was reported, and after the range
\* filter had answered "ignored" for the value 0.
C10_Witness ==
    /\ \E d \in sg.done : d.ret = ErrExpired /\ d.removes = 1
    /\ EventTypeHandlerError \in DOMAIN eventTypes
    /\ \A fid \in DOMAIN sg.snap : CallsMade(fid, 2) = 1
    /\ eventTypes["T"].value = 0

\* C1: Once(T, h): however the goroutines of the Fires of T interleave, the
\* terminal callback of h is invoked at most once through the wrapper (every
\* Call after that invocation returns "expired" without invoking h).
C1_OnceInvokesCallbackAtMostOnce ==
    \A r \in 1..Len(objs) :
        objs[r].kind = "maxCalls" => CopiesIn(r, sg.cbCount) <= 1

-----------------------------------------------------------------------------
(* The filter harnesses: a caller that builds one handler chain and then   *)
(* makes Calls on it one after the other, each with an event and a         *)
(* callback answer of its choice.  ncalls, lastCall and gh are history     *)
(* variables: they record what the Calls did and are read by no Call.      *)

\* How far the events fed so far follow the sequence example: the number of
\* its elements fed, or -1 once the events have left it.
exNext(ex, example, x) ==
    IF ex >= 0 /\ ex < Len(example) /\ x = example[ex + 1] THEN ex + 1 ELSE -1

\* The positions of the example whose event was forwarded.
exFwdNext(exFwd, exn, fwd) ==
    IF exn < 0 THEN <<>> ELSE IF fwd THEN Append(exFwd, exn) ELSE exFwd

ValueEvents(vals) == {valueEvent("T", 0, v) : v \in vals \cup {NaN}}
HarnessEvents(vals) == ValueEvents(vals) \cup {messageEvent("T", 0)}

(* --- max-calls ---------------------------------------------------------- *)

InitMaxCalls ==
    /\ flt \in {WithMaxCalls(inner, n) :
                  inner \in {Handler1, WithRange(Handler1, 1, 2)}, n \in 0..MaxN}
    /\ ncalls = 0
    /\ lastCall = NoCall
    /\ gh = [nfwd |-> 0]
    /\ IdleSink

CallMaxCalls ==
    /\ ncalls < MaxCalls
    /\ \E ev \in HarnessEvents(Values), cb \in CallbackResults :
         LET r == Call(flt, ev, cb) IN
         /\ flt' = r.h
         /\ ncalls' = ncalls + 1
         /\ lastCall' = [made |-> TRUE, ev |-> ev, ret |-> r.ret, fwd |-> r.fwd,
                         cbn |-> r.cbn, idx |-> ncalls + 1]
         /\ gh' = [nfwd |-> gh.nfwd + (IF r.fwd THEN 1 ELSE 0)]
    /\ UNCHANGED sinkVars

SpecMaxCalls == InitMaxCalls /\ [][CallMaxCalls]_vars

(* --- range -------------------------------------------------------------- *)

InitRange ==
    /\ flt \in {WithRange(Handler1, lo, hi) : lo \in Values, hi \in Values}
    /\ ncalls = 0
    /\ lastCall = NoCall
    /\ gh = [nfwd |-> 0]
    /\ IdleSink

CallRange ==
    /\ \E ev \in HarnessEvents(Values), cb \in CallbackResults :
         LET r == Call(flt, ev, cb) IN
         /\ flt' = r.h
         /\ lastCall' = [made |-> TRUE, ev |-> ev, ret |-> r.ret, fwd |-> r.fwd,
                         cbn |-> r.cbn]
         /\ UNCHANGED <<ncalls, gh>>
    /\ UNCHANGED sinkVars

SpecRange == InitRange /\ [][CallRange]_vars

(* --- direction ---------------------------------------------------------- *)

Directions == {DirectionNone, DirectionIncreasing, DirectionDecreasing,
               DirectionSteady, DirectionReverse}

DirectionExample == <<1, 2, 3, 2>>
DirectionExampleUp == <<5, 3, 4>>
DirectionExampleDown == <<5, 7, 6>>

InitDirection ==
    /\ flt \in {WithDirection(Handler1, d) : d \in Directions}
    /\ ncalls = 0
    /\ lastCall = NoCall
    /\ gh = [ex |-> 0, exFwd |-> <<>>, up |-> 0, upFwd |-> <<>>, down |-> 0,
             downFwd |-> <<>>, prev |-> NaN]
    /\ IdleSink

\* gh.prev: the value of the last value event fed that was not NaN; gh.up,
\* gh.down: how far the events follow DirectionExampleUp, DirectionExampleDown
CallDirection ==
    /\ \E ev \in HarnessEvents(Values), cb \in CallbackResults :
         LET r == Call(flt, ev, cb)
             x == IF IsValueEvent(ev) THEN ev.value ELSE NaN
             exn == exNext(gh.ex, DirectionExample, x)
             upn == exNext(gh.up, DirectionExampleUp, x)
             downn == exNext(gh.down, DirectionExampleDown, x) IN
         /\ flt' = r.h
         /\ lastCall' = [made |-> TRUE, ev |-> ev, ret |-> r.ret, fwd |-> r.fwd,
                         cbn |-> r.cbn, prev |-> gh.prev]
         /\ gh' = [ex |-> exn, exFwd |-> exFwdNext(gh.exFwd, exn, r.fwd),
                   up |-> upn, upFwd |-> exFwdNext(gh.upFwd, upn, r.fwd),
                   down |-> downn, downFwd |-> exFwdNext(gh.downFwd, downn, r.fwd),
                   prev |-> IF IsNaN(x) THEN gh.prev ELSE x]
         /\ UNCHANGED ncalls
    /\ UNCHANGED sinkVars

SpecDirection == InitDirection /\ [][CallDirection]_vars

(* --- threshold ---------------------------------------------------------- *)

Levels == 0..MaxLevel

ThresholdExample == <<20, 12, 9, 8, 16, 7>>
ThresholdExampleFilter == WithThreshold(Handler1, DirectionDecreasing, 10, 15)

\* gh.hadFwd: some event was forwarded; gh.resetSince: an event at or past
\* the reset value has been fed since the last forwarded one.
InitThreshold ==
    /\ flt \in {WithThreshold(Handler1, d, trig, reset) :
                  d \in Directions, trig \in Levels, reset \in Levels}
    /\ ncalls = 0
    /\ lastCall = NoCall
    /\ gh = [hadFwd |-> FALSE, resetSince |-> FALSE,
             ex |-> IF flt = ThresholdExampleFilter THEN 0 ELSE -1,
             exFwd |-> <<>>]
    /\ IdleSink

CallThreshold ==
    /\ \E ev \in HarnessEvents(Levels), cb \in CallbackResults :
         LET r == Call(flt, ev, cb)
             exn == exNext(gh.ex, ThresholdExample,
                           IF IsValueEvent(ev) THEN ev.value ELSE NaN)
             past == /\ valueGate(ev) = "ok"
                     /\ thresholdReset(flt.direction, flt.resetVal, ev.value) IN
         /\ flt' = r.h
         /\ lastCall' = [made |-> TRUE, ret |-> r.ret, fwd |-> r.fwd,
                         cbn |-> r.cbn, wasTriggered |-> flt.triggered,
                         hadFwd |-> gh.hadFwd, resetSince |-> gh.resetSince]
         /\ gh' = [hadFwd |-> gh.hadFwd \/ r.fwd,
                   resetSince |-> IF r.fwd THEN FALSE ELSE gh.resetSince \/ past,
                   ex |-> exn, exFwd |-> exFwdNext(gh.exFwd, exn, r.fwd)]
         /\ UNCHANGED ncalls
    /\ UNCHANGED sinkVars

SpecThreshold == InitThreshold /\ [][CallThreshold]_vars

(* --- debounce ----------------------------------------------------------- *)

Times == 0..MaxTime

DebounceExample == <<0, 5, 15, 16>>      \* 0s, 0.5s, 1.5s, 1.6s
DebounceExampleFilter == WithDebounce(Handler1, 10, 0)   \* ttl 1s, made at 0s

\* gh.created: when WithDebounce ran; gh.hadFwd, gh.lastFwd: the timestamp of
\* the last forwarded event, if any.
InitDebounce ==
    /\ \E ttl \in 1..MaxTtl, created \in Times :
         /\ flt = WithDebounce(Handler1, ttl, created)
         /\ gh = [created |-> created, hadFwd |-> FALSE, lastFwd |-> 0,
                  ex |-> IF flt = DebounceExampleFilter THEN 0 ELSE -1,
                  exFwd |-> <<>>]
    /\ ncalls = 0
    /\ lastCall = NoCall
    /\ IdleSink

CallDebounce ==
    /\ \E t \in Times, cb \in CallbackResults :
         LET ev == valueEvent("T", t, 0)
             r == Call(flt, ev, cb)
             exn == exNext(gh.ex, DebounceExample, t) IN
         /\ flt' = r.h
         /\ lastCall' = [made |-> TRUE, time |-> t, ret |-> r.ret, fwd |-> r.fwd,
                         cbn |-> r.cbn, hadFwd |-> gh.hadFwd, lastFwd |-> gh.lastFwd]
         /\ gh' = [gh EXCEPT !.hadFwd = @ \/ r.fwd,
                             !.lastFwd = IF r.fwd THEN t ELSE @,
                             !.ex = exn,
                             !.exFwd = exFwdNext(gh.exFwd, exn, r.fwd)]
         /\ UNCHANGED ncalls
    /\ UNCHANGED sinkVars

SpecDebounce == InitDebounce /\ [][CallDebounce]_vars

(* --- timeout ------------------------------------------------------------ *)

\* gh.created: when WithTimeout ran
InitTimeout ==
    /\ \E ttl \in 1..MaxTtl, created \in Times :
         /\ flt = WithTimeout(Handler1, ttl, created)
         /\ gh = [created |-> created]
    /\ ncalls = 0
    /\ lastCall = NoCall
    /\ IdleSink

\* One Call of the filter as the goroutine of Fire makes it; after: the calls
\* the goroutine makes on the sink next, from the error of the Call.
CallTimeout ==
    /\ \E t \in Times, cb \in CallbackResults :
         LET ev == valueEvent("T", t, 0)
             r == Call(flt, ev, cb)
             f == [fn |-> "dispatch", pc |-> "call", ev |-> ev, ret |-> ErrNil]
             next == AfterCall(f, ID(flt), r.ret) IN
         /\ flt' = r.h
         /\ lastCall' = [made |-> TRUE, time |-> t, ret |-> r.ret, fwd |-> r.fwd,
                         cbn |-> r.cbn,
                         after |-> [i \in 1..(Len(next) - 1) |-> next[i].fn]]
         /\ UNCHANGED <<ncalls, gh>>
    /\ UNCHANGED sinkVars

SpecTimeout == InitTimeout /\ [][CallTimeout]_vars

-----------------------------------------------------------------------------
(* The claims about the filters *)

\* C2: WithMaxCalls(h, n), n > 0, Calls one after the other, whatever the inner
\* handler answers: the inner handler is invoked on exactly the first n Calls,
\* and every later Call returns "expired" without invoking it.
C2_InnerOnFirstNCallsOnly ==
    (flt.kind = "maxCalls" /\ lastCall.made) =>
        /\ lastCall.idx <= flt.maxCalls => lastCall.fwd
        /\ lastCall.idx > flt.maxCalls =>
              (~lastCall.fwd /\ lastCall.ret = ErrExpired)

\* C4: a range filter forwards a non-NaN value v exactly when, with min > max,
\* v <= max or v >= min, and, with min <= max, min <= v <= max.
C4_RangeForwardsOutsideInvertedBand ==
    (lastCall.made /\ valueGate(lastCall.ev) = "ok") =>
        LET v == lastCall.ev.value IN
        lastCall.fwd <=> IF flt.min > flt.max
                         THEN v <= flt.max \/ v >= flt.min
                         ELSE flt.min <= v /\ v <= flt.max

\* C5: a direction filter with target "reverse" fed the values 1,2,3,2
\* forwards exactly one event, the final 2.
C5_ReverseForwardsOnceOnExample ==
    (flt.targetDirection = DirectionReverse /\ gh.ex = Len(DirectionExample)) =>
        gh.exFwd = <<4>>

\* C15: a direction filter with target increasing or decreasing forwards a
\* value only if its direction against the value of the value event before it
\* is the target; target increasing fed 5,3,4 forwards the 4, and fed 5,7,6
\* does not forward the 6.
C15_DirectionAgainstLastSeen ==
    /\ (/\ lastCall.made /\ lastCall.fwd
        /\ flt.targetDirection \in {DirectionIncreasing, DirectionDecreasing}) =>
           /\ ~IsNaN(lastCall.prev)
           /\ directionOf(lastCall.ev.value, lastCall.prev) = flt.targetDirection
    /\ (flt.targetDirection = DirectionIncreasing
           /\ gh.up = Len(DirectionExampleUp)) => gh.upFwd = <<3>>
    /\ (flt.targetDirection = DirectionIncreasing
           /\ gh.down = Len(DirectionExampleDown)) => gh.downFwd = <<2>>

\* C18: a timeout filter with end time E forwards an event only if its
\* timestamp is before E; for an event stamped at or after E the Call returns
\* "expired" without invoking the inner handler, and the goroutine of Fire then
\* calls RemoveEventListener and emits no listener-error.
C18_TimeoutBeforeEnd ==
    (flt.kind = "timeout" /\ lastCall.made) =>
        /\ lastCall.fwd => lastCall.time < flt.endTime
        /\ lastCall.time >= flt.endTime =>
              /\ ~lastCall.fwd /\ lastCall.cbn = 0
              /\ lastCall.ret = ErrExpired
              /\ lastCall.after = <<"RemoveEventListener">>

\* C6: the threshold filter is a latch: while latched no event is forwarded;
\* between two forwarded events an event at or past the reset value (in the
\* opposite sense) was fed; and decreasing, trigger 10, reset 15 fed
\* 20,12,9,8,16,7 forwards exactly the third and the sixth event (9 and 7).
C6_ThresholdIsLatch ==
    /\ lastCall.made =>
          /\ lastCall.wasTriggered => ~lastCall.fwd
          /\ (lastCall.fwd /\ lastCall.hadFwd) => lastCall.resetSince
    /\ gh.ex = Len(ThresholdExample) => gh.exFwd = <<3, 6>>

\* C6 witness: the example has been fed in full, its last event re-triggering
\* after the reset at 16.
C6_Witness ==
    /\ gh.ex = Len(ThresholdExample)
    /\ lastCall.fwd /\ lastCall.hadFwd /\ lastCall.resetSince

\* C7: debounce with ttl > 0 forwards an event exactly when its timestamp is
\* >= the timestamp of the last forwarded event + ttl (before any event was
\* forwarded: >= the filter's creation time); ttl 1s, created at 0s, fed
\* events stamped 0s,0.5s,1.5s,1.6s forwards the first and the third.
C7_DebounceByEventTime ==
    /\ lastCall.made =>
          lastCall.fwd <=>
             IF lastCall.hadFwd THEN lastCall.time >= lastCall.lastFwd + flt.ttl
             ELSE lastCall.time >= gh.created
    /\ gh.ex = Len(DebounceExample) => gh.exFwd = <<1, 3>>

\* C7 witness: the example has been fed in full, and its last event (1.6s)
\* was held back because 1.5s was forwarded.
C7_Witness ==
    /\ gh.ex = Len(DebounceExample)
    /\ ~lastCall.fwd /\ lastCall.hadFwd /\ lastCall.lastFwd = 15

====
